---------------------------- MODULE Spec2Model ----------------------------
(***************************************************************************)
(* Model of src/conversion.py: GlassCompositionConverter.                  *)
(*                                                                         *)
(* process_input splits the input text into lines, groups component        *)
(* records per glass (parse_line), converts each glass to mole-percent of  *)
(* its elements (convert_compositions) and renders the result              *)
(* (format_output).                                                        *)
(*                                                                         *)
(* A Python str is a sequence of one-character strings; a Python dict is   *)
(* a sequence of [key, value] entries in insertion order; a Python float   *)
(* is an exact rational [n, d] (d > 0, lowest terms).                      *)
(***************************************************************************)
EXTENDS Integers, Sequences, FiniteSets, TLC

VARIABLES
    text,           \* lines of self.input_text, i.e. text.split('\n')
    pc,             \* "parse" | "convert" | "format" | "done" | "error" | "coef"
    i,              \* index of the next line the parse loop reads
    current_glass,  \* label of the current glass, NoGlass before any header
    data_by_glass,  \* dict: glass label -> list of records
    g,              \* index of the next glass convert_compositions visits
    err,            \* the exception that ended process_input, NoError if none
    output,         \* lines of the text format_output returned
    parsed,         \* history: data_by_glass as the parse loop left it
    mole_values,    \* history: per visited glass, mole_value of each record
    coef_args,      \* arguments of the coefficient functions (SpecCoef)
    coef_result     \* their results (SpecCoef)

vars == <<text, pc, i, current_glass, data_by_glass, g, err, output, parsed,
          mole_values, coef_args, coef_result>>

----------------------------------------------------------------------------
(* Characters and strings *)

DigitSeq == <<"0", "1", "2", "3", "4", "5", "6", "7", "8", "9">>

UpperSeq == <<"A", "B", "C", "D", "E", "F", "G", "H", "I", "J", "K", "L", "M",
              "N", "O", "P", "Q", "R", "S", "T", "U", "V", "W", "X", "Y", "Z">>

LowerSeq == <<"a", "b", "c", "d", "e", "f", "g", "h", "i", "j", "k", "l", "m",
              "n", "o", "p", "q", "r", "s", "t", "u", "v", "w", "x", "y", "z">>

Range(s) == {s[k] : k \in 1..Len(s)}

\* \d
Digits == Range(DigitSeq)

\* \w (ASCII part)
WordChars == Digits \cup Range(UpperSeq) \cup Range(LowerSeq) \cup {"_"}

\* [\d.]
NumberChars == Digits \cup {"."}

\* the characters str.strip() removes
Whitespace == {" ", "\t"}

DigitVal(c) == (CHOOSE k \in 1..Len(DigitSeq) : DigitSeq[k] = c) - 1

\* int(ds) for a non-empty string of digits
RECURSIVE int(_)
int(ds) ==
    IF ds = <<>> THEN 0
    ELSE int(SubSeq(ds, 1, Len(ds) - 1)) * 10 + DigitVal(ds[Len(ds)])

LowerChar(c) ==
    IF c \in Range(UpperSeq)
    THEN LowerSeq[CHOOSE k \in 1..Len(UpperSeq) : UpperSeq[k] = c]
    ELSE c

\* str.lower()
lower(s) == [k \in 1..Len(s) |-> LowerChar(s[k])]

RECURSIVE lstrip(_)
lstrip(s) ==
    IF s # <<>> /\ Head(s) \in Whitespace THEN lstrip(Tail(s)) ELSE s

RECURSIVE rstrip(_)
rstrip(s) ==
    IF s # <<>> /\ s[Len(s)] \in Whitespace
    THEN rstrip(SubSeq(s, 1, Len(s) - 1))
    ELSE s

\* str.strip()
strip(s) == rstrip(lstrip(s))

\* str.startswith(p)
startswith(s, p) == Len(p) <= Len(s) /\ SubSeq(s, 1, Len(p)) = p

\* index of the first c in s, 0 if there is none
Find(s, c) ==
    IF \E k \in 1..Len(s) : s[k] = c
    THEN CHOOSE k \in 1..Len(s) : s[k] = c /\ \A j \in 1..(k - 1) : s[j] # c
    ELSE 0

\* str.split(sep) for a one-character separator
RECURSIVE split(_, _)
split(s, sep) ==
    LET k == Find(s, sep)
    IN  IF k = 0 THEN <<s>>
        ELSE <<SubSeq(s, 1, k - 1)>> \o split(SubSeq(s, k + 1, Len(s)), sep)

\* length of the longest run of characters of class C that starts at s[k]
RECURSIVE Run(_, _, _)
Run(s, k, C) == IF k <= Len(s) /\ s[k] \in C THEN 1 + Run(s, k + 1, C) ELSE 0

\* the position just after that run
After(s, k, C) == k + Run(s, k, C)

\* the literal p stands at s[k]
Lit(s, k, p) == k + Len(p) - 1 <= Len(s) /\ SubSeq(s, k, k + Len(p) - 1) = p

----------------------------------------------------------------------------
(* Numbers: exact rationals *)

RECURSIVE GCD(_, _)
GCD(a, b) == IF b = 0 THEN a ELSE GCD(b, a % b)

Abs(x) == IF x < 0 THEN -x ELSE x

Rat(n, d) ==
    LET c == GCD(Abs(n), d) IN [n |-> n \div c, d |-> d \div c]

Zero == Rat(0, 1)

\* x + y over the least common denominator
RatAdd(x, y) ==
    LET Over(c) == Rat(x.n * (y.d \div c) + y.n * (x.d \div c),
                       (x.d \div c) * y.d)
    IN  Over(GCD(x.d, y.d))

RatMul(x, y) ==
    LET Cross(c1, c2) == Rat((x.n \div c1) * (y.n \div c2),
                             (x.d \div c2) * (y.d \div c1))
    IN  Cross(GCD(Abs(x.n), y.d), GCD(Abs(y.n), x.d))

\* x / y for y > 0
RatDiv(x, y) ==
    LET Cross(c1, c2) == Rat((x.n \div c1) * (y.d \div c2),
                             (x.d \div c2) * (y.n \div c1))
    IN  Cross(GCD(Abs(x.n), y.n), GCD(x.d, y.d))

RatLess(x, y) == x.n * y.d < y.n * x.d

RECURSIVE RatSum(_)
RatSum(xs) == IF xs = <<>> THEN Zero ELSE RatAdd(Head(xs), RatSum(Tail(xs)))

\* x lies exactly halfway between two multiples of 1/100
IsTie(x) == 2 * ((x.n * 100) % x.d) = x.d

\* a rounding that is not round(x, 2): it cuts x off after two decimals
round2_truncate(x, tie_up) == Rat((x.n * 100) \div x.d, 100)

\* round(x, 2): the nearest multiple of 1/100.  The code rounds the binary
\* float nearest to x, which at an exact tie of x lies on either side of it:
\* there tie_up says whether the result is the upper multiple.
round2(x, tie_up) ==
    LET Nearest(q, r) ==
            IF 2 * r < x.d THEN q
            ELSE IF 2 * r > x.d THEN q + 1
            ELSE IF tie_up THEN q + 1 ELSE q
    IN  Rat(Nearest((x.n * 100) \div x.d, (x.n * 100) % x.d), 100)

RECURSIVE Pow10(_)
Pow10(k) == IF k = 0 THEN 1 ELSE 10 * Pow10(k - 1)

\* float(value) succeeds on a string over [\d.]: at most one point, a digit
FloatOK(value) ==
    /\ Cardinality({k \in 1..Len(value) : value[k] = "."}) <= 1
    /\ \E k \in 1..Len(value) : value[k] \in Digits

\* float(value)
float(value) ==
    LET p    == Find(value, ".")
        ip   == IF p = 0 THEN value ELSE SubSeq(value, 1, p - 1)
        fp   == IF p = 0 THEN <<>> ELSE SubSeq(value, p + 1, Len(value))
    IN  Rat(int(ip \o fp), Pow10(Len(fp)))

----------------------------------------------------------------------------
(* Dicts: sequences of [key, value] entries in insertion order *)

DictHas(d, k) == \E j \in 1..Len(d) : d[j].key = k

\* d.get(k, default)
DictGet(d, k, default) ==
    IF DictHas(d, k)
    THEN d[CHOOSE j \in 1..Len(d) : d[j].key = k].value
    ELSE default

\* d[k] = v: an existing key keeps its place
DictSet(d, k, v) ==
    IF DictHas(d, k)
    THEN [j \in 1..Len(d) |->
            IF d[j].key = k THEN [key |-> k, value |-> v] ELSE d[j]]
    ELSE Append(d, [key |-> k, value |-> v])

DictKeys(d) == [j \in 1..Len(d) |-> d[j].key]

DictValues(d) == [j \in 1..Len(d) |-> d[j].value]

----------------------------------------------------------------------------
(* Parser *)

Glass == <<"G", "l", "a", "s", "s">>

\* current_glass = None
NoGlass == <<>>

NoError == [kind |-> "none", detail |-> <<>>]

\* ValueError(f"Invalid part format: {part}")
InvalidPart(part) == [kind |-> "InvalidPartFormat", detail |-> part]

\* ValueError("could not convert string to float: ...") raised by float(value)
FloatError(value) == [kind |-> "FloatConversion", detail |-> value]

\* ZeroDivisionError raised by moles / total_moles
ZeroDivision == [kind |-> "ZeroDivision", detail |-> <<>>]

\* re.match(r'\d+\.', line)
re_match_index(line) ==
    LET n == Run(line, 1, Digits)
    IN  n >= 1 /\ Lit(line, n + 1, <<".">>)

NoMatch == [ok |-> FALSE]

\* re.match(r'\d+\. \[(\w+)\]\[(\w+)\] :', line); p1, p2, p3 are the
\* positions just after the index digits, the oxide and the element
re_match_line(line) ==
    LET M3(p1, p2, p3) ==
            IF /\ p1 > 1
               /\ Lit(line, p1, <<".", " ", "[">>)
               /\ p2 > p1 + 3
               /\ Lit(line, p2, <<"]", "[">>)
               /\ p3 > p2 + 2
               /\ Lit(line, p3, <<"]", " ", ":">>)
            THEN [ok |-> TRUE,
                  oxide |-> SubSeq(line, p1 + 3, p2 - 1),
                  element |-> SubSeq(line, p2 + 2, p3 - 1)]
            ELSE NoMatch
        M2(p1, p2) == M3(p1, p2, After(line, p2 + 2, WordChars))
        M1(p1) == M2(p1, After(line, p1 + 3, WordChars))
    IN  M1(After(line, 1, Digits))

\* r'\[([\d.]+)\]\[(\w+%)\]\[(\w+)\]' matched at part[k]; p1, p2, p3 are the
\* positions just after the number, the unit's word characters and the type
re_part_at(part, k) ==
    LET M3(p1, p2, p3) ==
            IF /\ Lit(part, k, <<"[">>)
               /\ p1 > k + 1
               /\ Lit(part, p1, <<"]", "[">>)
               /\ p2 > p1 + 2
               /\ Lit(part, p2, <<"%", "]", "[">>)
               /\ p3 > p2 + 3
               /\ Lit(part, p3, <<"]">>)
            THEN [ok |-> TRUE,
                  value |-> SubSeq(part, k + 1, p1 - 1),
                  unit |-> SubSeq(part, p1 + 2, p2),
                  type_ |-> SubSeq(part, p2 + 3, p3 - 1)]
            ELSE NoMatch
        M2(p1, p2) == M3(p1, p2, After(part, p2 + 3, WordChars))
        M1(p1) == M2(p1, After(part, p1 + 2, WordChars))
    IN  M1(After(part, k + 1, NumberChars))

\* re.search(r'\[([\d.]+)\]\[(\w+%)\]\[(\w+)\]', part): the leftmost match
re_search_part(part) ==
    LET hits == {k \in 1..Len(part) : re_part_at(part, k).ok}
    IN  IF hits = {} THEN NoMatch
        ELSE re_part_at(part, CHOOSE k \in hits : \A j \in hits : k <= j)

\* f"{unit}_{type_}"
Key(unit, type_) == unit \o <<"_">> \o type_

\* the for loop over parts (lines 68-77): data and the exception raised, if any
RECURSIVE parse_parts(_, _)
parse_parts(parts, vals) ==
    LET Body(part, m) ==
            IF part = <<>> THEN parse_parts(Tail(parts), vals)
            ELSE IF ~m.ok THEN [error |-> InvalidPart(part), vals |-> vals]
            ELSE IF ~FloatOK(m.value)
                 THEN [error |-> FloatError(m.value), vals |-> vals]
            ELSE parse_parts(Tail(parts),
                     DictSet(vals, Key(m.unit, m.type_), float(m.value)))
    IN  IF parts = <<>> THEN [error |-> NoError, vals |-> vals]
        ELSE Body(strip(Head(parts)), re_search_part(strip(Head(parts))))

\* parse_line: tag "none" (return None), "data" (return data) or "raise"
parse_line(line) ==
    LET Ret(m, res) ==
            [tag |-> IF res.error = NoError THEN "data" ELSE "raise",
             oxide |-> m.oxide, element |-> m.element,
             vals |-> res.vals, error |-> res.error]
        Parts(m) ==
            IF ~m.ok
            THEN [tag |-> "none", oxide |-> <<>>, element |-> <<>>,
                  vals |-> <<>>, error |-> NoError]
            ELSE Ret(m, parse_parts(split(strip(split(line, ":")[2]), ";"), <<>>))
    IN  Parts(re_match_line(line))

\* the dict parse_line returns
Record(r) == [oxide |-> r.oxide, element |-> r.element, vals |-> r.vals]

----------------------------------------------------------------------------
(* Stoichiometry *)

\* re.match(rf'^{element}(\d*)', oxide), then int of the digits or 1
get_stoichiometric_coefficient(oxide, element) ==
    IF startswith(oxide, element)
    THEN LET n == Run(oxide, Len(element) + 1, Digits)
         IN  IF n > 0
             THEN int(SubSeq(oxide, Len(element) + 1, Len(element) + n))
             ELSE 1
    ELSE 1

\* a reading that is not the code's: r'O(\d)', one digit after the first 'O'
\* that a digit follows
get_oxygen_coefficient_one_digit(oxide) ==
    LET hits == {k \in 1..Len(oxide) :
                    oxide[k] = "O" /\ Run(oxide, k + 1, Digits) >= 1}
    IN  IF hits = {} THEN 1
        ELSE LET k == CHOOSE k \in hits : \A j \in hits : k <= j
             IN  int(SubSeq(oxide, k + 1, k + 1))

\* re.search(r'O(\d+)', oxide), then int of the digits, or 1 when no match
get_oxygen_coefficient(oxide) ==
    LET hits == {k \in 1..Len(oxide) :
                    oxide[k] = "O" /\ Run(oxide, k + 1, Digits) >= 1}
    IN  IF hits = {} THEN 1
        ELSE LET k == CHOOSE k \in hits : \A j \in hits : k <= j
             IN  int(SubSeq(oxide, k + 1, k + Run(oxide, k + 1, Digits)))

----------------------------------------------------------------------------
(* Conversion engine *)

\* molar_masses, in hundredths of g/mol ('U' is listed twice, with one value)
molar_masses_x100 == <<
    [key |-> <<"S", "i", "O", "2">>, value |-> 6008],
    [key |-> <<"S", "i">>, value |-> 2809],
    [key |-> <<"B", "2", "O", "3">>, value |-> 6962],
    [key |-> <<"B">>, value |-> 1081],
    [key |-> <<"P", "2", "O", "5">>, value |-> 14194],
    [key |-> <<"P">>, value |-> 3097],
    [key |-> <<"T", "e", "O", "2">>, value |-> 15960],
    [key |-> <<"T", "e">>, value |-> 12760],
    [key |-> <<"G", "e", "O", "2">>, value |-> 10464],
    [key |-> <<"G", "e">>, value |-> 7264],
    [key |-> <<"A", "s", "2", "O", "3">>, value |-> 19784],
    [key |-> <<"A", "s">>, value |-> 7492],
    [key |-> <<"S", "b", "2", "O", "3">>, value |-> 29152],
    [key |-> <<"S", "b">>, value |-> 12176],
    [key |-> <<"B", "i", "2", "O", "3">>, value |-> 46596],
    [key |-> <<"B", "i">>, value |-> 20898],
    [key |-> <<"V", "2", "O", "5">>, value |-> 18188],
    [key |-> <<"V">>, value |-> 5094],
    [key |-> <<"W", "O", "3">>, value |-> 23184],
    [key |-> <<"W">>, value |-> 18384],
    [key |-> <<"N", "a", "2", "O">>, value |-> 6198],
    [key |-> <<"N", "a">>, value |-> 2299],
    [key |-> <<"K", "2", "O">>, value |-> 9420],
    [key |-> <<"K">>, value |-> 3910],
    [key |-> <<"L", "i", "2", "O">>, value |-> 2988],
    [key |-> <<"L", "i">>, value |-> 694],
    [key |-> <<"C", "a", "O">>, value |-> 5608],
    [key |-> <<"C", "a">>, value |-> 4008],
    [key |-> <<"M", "g", "O">>, value |-> 4031],
    [key |-> <<"M", "g">>, value |-> 2431],
    [key |-> <<"B", "a", "O">>, value |-> 15333],
    [key |-> <<"B", "a">>, value |-> 13733],
    [key |-> <<"S", "r", "O">>, value |-> 10362],
    [key |-> <<"S", "r">>, value |-> 8762],
    [key |-> <<"C", "s", "2", "O">>, value |-> 28181],
    [key |-> <<"C", "s">>, value |-> 13291],
    [key |-> <<"R", "b", "2", "O">>, value |-> 18694],
    [key |-> <<"R", "b">>, value |-> 8547],
    [key |-> <<"P", "b", "O">>, value |-> 22320],
    [key |-> <<"P", "b">>, value |-> 20720],
    [key |-> <<"Z", "n", "O">>, value |-> 8138],
    [key |-> <<"Z", "n">>, value |-> 6538],
    [key |-> <<"C", "d", "O">>, value |-> 12841],
    [key |-> <<"C", "d">>, value |-> 11241],
    [key |-> <<"A", "g", "2", "O">>, value |-> 23174],
    [key |-> <<"A", "g">>, value |-> 10787],
    [key |-> <<"T", "l", "2", "O">>, value |-> 42476],
    [key |-> <<"T", "l">>, value |-> 20438],
    [key |-> <<"A", "l", "2", "O", "3">>, value |-> 10196],
    [key |-> <<"A", "l">>, value |-> 2698],
    [key |-> <<"F", "e", "2", "O", "3">>, value |-> 15969],
    [key |-> <<"F", "e">>, value |-> 5585],
    [key |-> <<"T", "i", "O", "2">>, value |-> 7987],
    [key |-> <<"T", "i">>, value |-> 4787],
    [key |-> <<"Z", "r", "O", "2">>, value |-> 12322],
    [key |-> <<"Z", "r">>, value |-> 9122],
    [key |-> <<"C", "e", "O", "2">>, value |-> 17212],
    [key |-> <<"C", "e">>, value |-> 14012],
    [key |-> <<"L", "a", "2", "O", "3">>, value |-> 32581],
    [key |-> <<"L", "a">>, value |-> 13891],
    [key |-> <<"N", "d", "2", "O", "3">>, value |-> 33648],
    [key |-> <<"N", "d">>, value |-> 14424],
    [key |-> <<"H", "f", "O", "2">>, value |-> 21049],
    [key |-> <<"H", "f">>, value |-> 17849],
    [key |-> <<"S", "n", "O", "2">>, value |-> 15071],
    [key |-> <<"S", "n">>, value |-> 11871],
    [key |-> <<"N", "i", "O">>, value |-> 7469],
    [key |-> <<"N", "i">>, value |-> 5869],
    [key |-> <<"C", "r", "2", "O", "3">>, value |-> 15200],
    [key |-> <<"C", "r">>, value |-> 5200],
    [key |-> <<"M", "n", "O", "2">>, value |-> 8694],
    [key |-> <<"M", "n">>, value |-> 5494],
    [key |-> <<"Y", "2", "O", "3">>, value |-> 22581],
    [key |-> <<"Y">>, value |-> 8891],
    [key |-> <<"P", "r", "2", "O", "3">>, value |-> 32981],
    [key |-> <<"P", "r">>, value |-> 14091],
    [key |-> <<"S", "m", "2", "O", "3">>, value |-> 34872],
    [key |-> <<"S", "m">>, value |-> 15036],
    [key |-> <<"E", "u", "2", "O", "3">>, value |-> 35192],
    [key |-> <<"E", "u">>, value |-> 15196],
    [key |-> <<"G", "d", "2", "O", "3">>, value |-> 36250],
    [key |-> <<"G", "d">>, value |-> 15725],
    [key |-> <<"N", "b", "2", "O", "5">>, value |-> 26581],
    [key |-> <<"N", "b">>, value |-> 9291],
    [key |-> <<"T", "a", "2", "O", "5">>, value |-> 44189],
    [key |-> <<"T", "a">>, value |-> 18095],
    [key |-> <<"T", "h", "O", "2">>, value |-> 26404],
    [key |-> <<"T", "h">>, value |-> 23204],
    [key |-> <<"G", "a", "2", "O", "3">>, value |-> 18744],
    [key |-> <<"G", "a">>, value |-> 6972],
    [key |-> <<"I", "n", "2", "O", "3">>, value |-> 27764],
    [key |-> <<"I", "n">>, value |-> 11482],
    [key |-> <<"T", "b", "2", "O", "3">>, value |-> 36585],
    [key |-> <<"T", "b">>, value |-> 15893],
    [key |-> <<"D", "y", "2", "O", "3">>, value |-> 37300],
    [key |-> <<"D", "y">>, value |-> 16250],
    [key |-> <<"E", "r", "2", "O", "3">>, value |-> 38252],
    [key |-> <<"E", "r">>, value |-> 16726],
    [key |-> <<"Y", "b", "2", "O", "3">>, value |-> 39410],
    [key |-> <<"Y", "b">>, value |-> 17305],
    [key |-> <<"S", "c", "2", "O", "3">>, value |-> 13791],
    [key |-> <<"S", "c">>, value |-> 4496],
    [key |-> <<"H", "o", "2", "O", "3">>, value |-> 37786],
    [key |-> <<"H", "o">>, value |-> 16493],
    [key |-> <<"T", "m", "2", "O", "3">>, value |-> 38586],
    [key |-> <<"T", "m">>, value |-> 16893],
    [key |-> <<"L", "u", "2", "O", "3">>, value |-> 39794],
    [key |-> <<"L", "u">>, value |-> 17497],
    [key |-> <<"U", "O", "2">>, value |-> 27003],
    [key |-> <<"U">>, value |-> 23803],
    [key |-> <<"U", "O", "3">>, value |-> 28603],
    [key |-> <<"P", "u", "O", "2">>, value |-> 27606],
    [key |-> <<"P", "u">>, value |-> 24406],
    [key |-> <<"N", "p", "O", "2">>, value |-> 26905],
    [key |-> <<"N", "p">>, value |-> 23705],
    [key |-> <<"A", "m", "2", "O", "3">>, value |-> 53412],
    [key |-> <<"A", "m">>, value |-> 24306],
    [key |-> <<"C", "m", "2", "O", "3">>, value |-> 54214],
    [key |-> <<"C", "m">>, value |-> 24707],
    [key |-> <<"M", "o", "O", "3">>, value |-> 14395],
    [key |-> <<"M", "o">>, value |-> 9595],
    [key |-> <<"R", "u", "O", "2">>, value |-> 13307],
    [key |-> <<"R", "u">>, value |-> 10107],
    [key |-> <<"S", "e", "O", "2">>, value |-> 11097],
    [key |-> <<"S", "e">>, value |-> 7897],
    [key |-> <<"C", "o", "O">>, value |-> 7493],
    [key |-> <<"C", "o">>, value |-> 5893],
    [key |-> <<"C", "u", "O">>, value |-> 7955],
    [key |-> <<"C", "u">>, value |-> 6355],
    [key |-> <<"A", "u", "2", "O", "3">>, value |-> 44194],
    [key |-> <<"A", "u">>, value |-> 19697] >>

\* the formulas the dict literal lists: the keys of molar_masses
molar_mass_formulas ==
    {molar_masses_x100[j].key : j \in 1..Len(molar_masses_x100)}

\* the dict the literal builds, in hundredths of g/mol
molar_masses ==
    [formula \in molar_mass_formulas |->
        DictGet(molar_masses_x100, formula, 0)]

\* formula in molar_masses
in_molar_masses(formula) == formula \in molar_mass_formulas

\* molar_masses[formula]
molar_mass(formula) == Rat(molar_masses[formula], 100)

MolOxide == <<"m", "o", "l", "%", "_", "o", "x", "i", "d", "e">>

WtOxide == <<"w", "t", "%", "_", "o", "x", "i", "d", "e">>

WtElement == <<"w", "t", "%", "_", "e", "l", "e", "m", "e", "n", "t">>

MolElement == <<"m", "o", "l", "%", "_", "e", "l", "e", "m", "e", "n", "t">>

Oxygen == <<"O">>

\* mole_value = None
None == [n |-> 0, d |-> 0]

IsPositive(x) == x.n > 0

\* a chain that is not the code's: a formula the table lacks counts as one
\* of molar mass 1 instead of leaving mole_value unset
mole_value_default_mass(data) ==
    LET mo == DictGet(data.vals, MolOxide, Zero)
        wo == DictGet(data.vals, WtOxide, Zero)
        we == DictGet(data.vals, WtElement, Zero)
        Mass(formula) == IF in_molar_masses(formula) THEN molar_mass(formula)
                         ELSE Rat(1, 1)
    IN  IF IsPositive(mo) THEN RatDiv(mo, Rat(100, 1))
        ELSE IF IsPositive(wo) THEN RatDiv(wo, Mass(data.oxide))
        ELSE IF IsPositive(we) THEN RatDiv(we, Mass(data.element))
        ELSE None

\* lines 185-200: the if / elif / elif chain that sets mole_value
mole_value(data) ==
    LET mo == DictGet(data.vals, MolOxide, Zero)
        wo == DictGet(data.vals, WtOxide, Zero)
        we == DictGet(data.vals, WtElement, Zero)
    IN  IF IsPositive(mo) THEN RatDiv(mo, Rat(100, 1))
        ELSE IF IsPositive(wo)
             THEN IF in_molar_masses(data.oxide)
                  THEN RatDiv(wo, molar_mass(data.oxide))
                  ELSE None
        ELSE IF IsPositive(we)
             THEN IF in_molar_masses(data.element)
                  THEN RatDiv(we, molar_mass(data.element))
                  ELSE None
        ELSE None

\* has_convertible_data after the loop over the records
has_convertible_data(compositions) ==
    \E k \in 1..Len(compositions) : mole_value(compositions[k]) # None

\* lines 181-214: aggregated_moles after the loop over the records
RECURSIVE aggregate(_, _)
aggregate(compositions, aggregated_moles) ==
    LET AddOxygen(data, mv, a1) ==
            DictSet(a1, Oxygen,
                RatAdd(DictGet(a1, Oxygen, Zero),
                       RatMul(mv, Rat(get_oxygen_coefficient(data.oxide), 1))))
        AddCation(data, mv) ==
            DictSet(aggregated_moles, data.element,
                RatAdd(DictGet(aggregated_moles, data.element, Zero),
                       RatMul(mv, Rat(get_stoichiometric_coefficient(
                                          data.oxide, data.element), 1))))
        Body(data, mv) ==
            IF mv = None THEN aggregate(Tail(compositions), aggregated_moles)
            ELSE aggregate(Tail(compositions),
                           AddOxygen(data, mv, AddCation(data, mv)))
    IN  IF compositions = <<>> THEN aggregated_moles
        ELSE Body(Head(compositions), mole_value(Head(compositions)))

\* {'element': species, 'mol%_element': value}
Result(species, value) ==
    [element |-> species, vals |-> <<[key |-> MolElement, value |-> value]>>]

\* (moles / total_moles) * 100
percent(moles, total_moles) == RatMul(RatDiv(moles, total_moles), Rat(100, 1))

\* lines 217-225: the list that replaces the glass's records; ups holds the
\* positions whose percentage, an exact tie, rounds up
normalize(aggregated_moles, total_moles, ups) ==
    [j \in 1..Len(aggregated_moles) |->
        Result(aggregated_moles[j].key,
               round2(percent(aggregated_moles[j].value, total_moles),
                      j \in ups))]

\* the positions of aggregated_moles whose percentage is an exact tie
Ties(compositions) ==
    LET Body(aggregated_moles, total_moles) ==
            IF total_moles = Zero THEN {}
            ELSE {j \in 1..Len(aggregated_moles) :
                     IsTie(percent(aggregated_moles[j].value, total_moles))}
    IN  Body(aggregate(compositions, <<>>),
             RatSum(DictValues(aggregate(compositions, <<>>))))

\* one iteration of the loop over data_by_glass.items() (lines 172-225)
convert_glass(compositions, ups) ==
    LET Body(aggregated_moles, total_moles) ==
            IF total_moles = Zero
            THEN [error |-> ZeroDivision, compositions |-> compositions]
            ELSE [error |-> NoError,
                  compositions |-> normalize(aggregated_moles, total_moles, ups)]
    IN  IF compositions = <<>> \/ ~has_convertible_data(compositions)
        THEN [error |-> NoError, compositions |-> compositions]
        ELSE Body(aggregate(compositions, <<>>),
                  RatSum(DictValues(aggregate(compositions, <<>>))))

----------------------------------------------------------------------------
(* Formatter *)

\* f"{glass.lower()}:"
HeaderLine(glass) == [kind |-> "header", name |-> lower(glass), value |-> Zero]

\* f"mol% {element} = {mol_percent}"
MolLine(element, mol_percent) ==
    [kind |-> "mol", name |-> element, value |-> mol_percent]

RECURSIVE format_compositions(_)
format_compositions(compositions) ==
    IF compositions = <<>> THEN <<>>
    ELSE LET data == Head(compositions)
             mol_percent == DictGet(data.vals, MolElement, Zero)
         IN  (IF IsPositive(mol_percent)
              THEN <<MolLine(data.element, mol_percent)>>
              ELSE <<>>) \o format_compositions(Tail(compositions))

\* a formatter that is not the code's: it passes over the glasses whose
\* list still holds parsed records
RECURSIVE format_output_converted_only(_)
format_output_converted_only(dbg) ==
    IF dbg = <<>> THEN <<>>
    ELSE (IF /\ Head(dbg).value # <<>>
             /\ \A k \in 1..Len(Head(dbg).value) :
                    "oxide" \notin DOMAIN Head(dbg).value[k]
          THEN <<HeaderLine(Head(dbg).key)>> \o format_compositions(Head(dbg).value)
          ELSE <<>>) \o format_output_converted_only(Tail(dbg))

\* format_output: the lines that "\n".join(output) joins
RECURSIVE format_output(_)
format_output(dbg) ==
    IF dbg = <<>> THEN <<>>
    ELSE (IF Head(dbg).value # <<>>
          THEN <<HeaderLine(Head(dbg).key)>> \o format_compositions(Head(dbg).value)
          ELSE <<>>) \o format_output(Tail(dbg))

----------------------------------------------------------------------------
(* process_input as a state machine *)

\* a header handling that is not the code's: data_by_glass.setdefault(
\* current_glass, []), which keeps the list of a label seen before
open_glass_keep(dbg, label) ==
    IF DictHas(dbg, label) THEN dbg ELSE DictSet(dbg, label, <<>>)

\* data_by_glass[current_glass] = []
open_glass(dbg, label) == DictSet(dbg, label, <<>>)

\* data_by_glass[current_glass].append(data)
append_record(dbg, label, data) ==
    DictSet(dbg, label, Append(DictGet(dbg, label, <<>>), data))

\* the branch of the loop body (lines 33-48) that the stripped line takes
LineKind(line) ==
    IF line = <<>> THEN "blank"
    ELSE IF startswith(line, Glass) THEN "header"
    ELSE IF current_glass # NoGlass /\ re_match_index(line) THEN "data"
    ELSE "other"

\* the body of the loop over lines (lines 33-48), for line number i; a
\* singleton set binds a value that is computed once
ReadLine ==
    /\ pc = "parse"
    /\ i <= Len(text)
    /\ \E line \in {strip(text[i])} :
       \E kind \in {LineKind(line)} :
       \E r \in {IF kind = "data" THEN parse_line(line) ELSE parse_line(<<>>)} :
       \E dbg \in {IF kind = "header"
                   THEN open_glass(data_by_glass, strip(split(line, ":")[1]))
                   ELSE IF kind = "data" /\ r.tag = "data"
                   THEN append_record(data_by_glass, current_glass, Record(r))
                   ELSE data_by_glass} :
           IF kind = "data" /\ r.tag = "raise"
           THEN /\ pc' = "error"
                /\ err' = r.error
                /\ UNCHANGED <<i, current_glass, data_by_glass, parsed>>
           ELSE /\ i' = i + 1
                /\ current_glass' = IF kind = "header"
                                    THEN strip(split(line, ":")[1])
                                    ELSE current_glass
                /\ data_by_glass' = dbg
                /\ pc' = IF i < Len(text) THEN "parse"
                         ELSE IF dbg = <<>> THEN "format" ELSE "convert"
                /\ parsed' = IF i < Len(text) THEN parsed ELSE dbg
                /\ err' = err
    /\ UNCHANGED <<text, g, output, mole_values, coef_args, coef_result>>

\* one iteration of the loop of convert_compositions (lines 172-225), glass g
ConvertGlass ==
    /\ pc = "convert"
    /\ g <= Len(data_by_glass)
    /\ \E glass \in {data_by_glass[g].key} :
       \E compositions \in {data_by_glass[g].value} :
       \E ups \in SUBSET Ties(compositions) :
       \E res \in {convert_glass(compositions, ups)} :
           /\ mole_values' = Append(mole_values,
                  [k \in 1..Len(compositions) |-> mole_value(compositions[k])])
           /\ IF res.error # NoError
              THEN /\ pc' = "error"
                   /\ err' = res.error
                   /\ UNCHANGED <<data_by_glass, g>>
              ELSE /\ data_by_glass' =
                          DictSet(data_by_glass, glass, res.compositions)
                   /\ g' = g + 1
                   /\ pc' = IF g = Len(data_by_glass)
                            THEN "format" ELSE "convert"
                   /\ err' = err
    /\ UNCHANGED <<text, i, current_glass, output, parsed, coef_args, coef_result>>

\* output_text = self.format_output(data_by_glass); return message
FormatOutput ==
    /\ pc = "format"
    /\ output' = format_output(data_by_glass)
    /\ pc' = "done"
    /\ UNCHANGED <<text, i, current_glass, data_by_glass, g, err, parsed,
                   mole_values, coef_args, coef_result>>

Next == ReadLine \/ ConvertGlass \/ FormatOutput

NoCoef == [cation |-> -1, oxygen |-> -1]

NoArgs == [oxide |-> <<>>, element |-> <<>>]

\* the state when process_input is entered with the lines t
Start(t) ==
    /\ text = t
    /\ pc = "parse"
    /\ i = 1
    /\ current_glass = NoGlass
    /\ data_by_glass = <<>>
    /\ g = 1
    /\ err = NoError
    /\ output = <<>>
    /\ parsed = <<>>
    /\ mole_values = <<>>
    /\ coef_args = NoArgs
    /\ coef_result = NoCoef

----------------------------------------------------------------------------
(* Inputs *)

\* 'Glass 1:'
Glass1 == <<"G", "l", "a", "s", "s", " ", "1", ":">>

\* 'Glass 2: soda-lime'
Glass2 == <<"G", "l", "a", "s", "s", " ", "2", ":", " ", "s", "o", "d", "a", "-", "l", "i", "m", "e">>

\* '1. [SiO2][Si] : [70][wt%][oxide];'
LineSiWt == <<"1", ".", " ", "[", "S", "i", "O", "2", "]", "[", "S", "i", "]", " ", ":", " ", "[", "7", "0", "]", "[", "w", "t", "%", "]", "[", "o", "x", "i", "d", "e", "]", ";">>

\* '1. [SiO2][Si] : [50][wtX][oxide]'
LineBadUnit == <<"1", ".", " ", "[", "S", "i", "O", "2", "]", "[", "S", "i", "]", " ", ":", " ", "[", "5", "0", "]", "[", "w", "t", "X", "]", "[", "o", "x", "i", "d", "e", "]">>

\* '1. [SiO2][Si] : [50][wt%][oxide]:; [50][wtX][oxide]'
LineSecondColon == <<"1", ".", " ", "[", "S", "i", "O", "2", "]", "[", "S", "i", "]", " ", ":", " ", "[", "5", "0", "]", "[", "w", "t", "%", "]", "[", "o", "x", "i", "d", "e", "]", ":", ";", " ", "[", "5", "0", "]", "[", "w", "t", "X", "]", "[", "o", "x", "i", "d", "e", "]">>

\* '1. [SiO2][Si] : x[50][wt%][oxide]x'
LineEmbedded == <<"1", ".", " ", "[", "S", "i", "O", "2", "]", "[", "S", "i", "]", " ", ":", " ", "x", "[", "5", "0", "]", "[", "w", "t", "%", "]", "[", "o", "x", "i", "d", "e", "]", "x">>

\* '1. [SiO2][Si] : [1.2.3][wt%][oxide]'
LineBadNumber == <<"1", ".", " ", "[", "S", "i", "O", "2", "]", "[", "S", "i", "]", " ", ":", " ", "[", "1", ".", "2", ".", "3", "]", "[", "w", "t", "%", "]", "[", "o", "x", "i", "d", "e", "]">>

\* '3. SiO2 = 70'
LineNoBrackets == <<"3", ".", " ", "S", "i", "O", "2", " ", "=", " ", "7", "0">>

\* '  '
LineBlank == <<" ", " ">>

\* 'note'
LineNote == <<"n", "o", "t", "e">>

MaxLines == 4

ParseCorpus ==
    {Glass1, Glass2, LineSiWt, LineBadUnit, LineSecondColon,
     LineEmbedded, LineBadNumber, LineNoBrackets, LineBlank, LineNote}

\* text.split('\n') always yields at least one line
InitParse ==
    \E n \in 1..MaxLines : \E t \in [1..n -> ParseCorpus] : Start(t)

SpecParse == InitParse /\ [][Next]_vars

\* '1. [SiO2][Si] : [50][mol%][element]'
RecMolElement == <<"1", ".", " ", "[", "S", "i", "O", "2", "]", "[", "S", "i", "]", " ", ":", " ", "[", "5", "0", "]", "[", "m", "o", "l", "%", "]", "[", "e", "l", "e", "m", "e", "n", "t", "]">>

\* '1. [SiO2][Si] : [50][mol%][oxide]; [80][wt%][oxide]'
RecBoth == <<"1", ".", " ", "[", "S", "i", "O", "2", "]", "[", "S", "i", "]", " ", ":", " ", "[", "5", "0", "]", "[", "m", "o", "l", "%", "]", "[", "o", "x", "i", "d", "e", "]", ";", " ", "[", "8", "0", "]", "[", "w", "t", "%", "]", "[", "o", "x", "i", "d", "e", "]">>

\* '2. [XO2][Si] : [80][wt%][oxide]; [28.09][wt%][element]'
RecUnknownOxideKnownElement == <<"2", ".", " ", "[", "X", "O", "2", "]", "[", "S", "i", "]", " ", ":", " ", "[", "8", "0", "]", "[", "w", "t", "%", "]", "[", "o", "x", "i", "d", "e", "]", ";", " ", "[", "2", "8", ".", "0", "9", "]", "[", "w", "t", "%", "]", "[", "e", "l", "e", "m", "e", "n", "t", "]">>

\* '3. [XO2][X] : [80][wt%][oxide]'
RecUnknownOxide == <<"3", ".", " ", "[", "X", "O", "2", "]", "[", "X", "]", " ", ":", " ", "[", "8", "0", "]", "[", "w", "t", "%", "]", "[", "o", "x", "i", "d", "e", "]">>

\* '4. [Si0O0][Si] : [50][mol%][oxide]'
RecZeroSubscripts == <<"4", ".", " ", "[", "S", "i", "0", "O", "0", "]", "[", "S", "i", "]", " ", ":", " ", "[", "5", "0", "]", "[", "m", "o", "l", "%", "]", "[", "o", "x", "i", "d", "e", "]">>

\* '6. [Al2O3][Al] : [26.98][wt%][element]'
RecAlWtElement == <<"6", ".", " ", "[", "A", "l", "2", "O", "3", "]", "[", "A", "l", "]", " ", ":", " ", "[", "2", "6", ".", "9", "8", "]", "[", "w", "t", "%", "]", "[", "e", "l", "e", "m", "e", "n", "t", "]">>

\* '7. [O2][O] : [10][mol%][oxide]'
RecOxygenCation == <<"7", ".", " ", "[", "O", "2", "]", "[", "O", "]", " ", ":", " ", "[", "1", "0", "]", "[", "m", "o", "l", "%", "]", "[", "o", "x", "i", "d", "e", "]">>

\* '8. [SiO2][Si] : [0][mol%][oxide]; [60.08][wt%][oxide]'
RecZeroMol == <<"8", ".", " ", "[", "S", "i", "O", "2", "]", "[", "S", "i", "]", " ", ":", " ", "[", "0", "]", "[", "m", "o", "l", "%", "]", "[", "o", "x", "i", "d", "e", "]", ";", " ", "[", "6", "0", ".", "0", "8", "]", "[", "w", "t", "%", "]", "[", "o", "x", "i", "d", "e", "]">>

MaxRecords == 3

ConvCorpus ==
    {RecMolElement, RecBoth, RecUnknownOxideKnownElement, RecUnknownOxide,
     RecZeroSubscripts, RecAlWtElement, RecOxygenCation, RecZeroMol}

\* one glass, or two, with at most MaxRecords data lines in all
Init ==
    \E n1 \in 0..MaxRecords : \E r1 \in [1..n1 -> ConvCorpus] :
        \/ Start(<<Glass1>> \o r1)
        \/ \E n2 \in 0..(MaxRecords - n1) : \E r2 \in [1..n2 -> ConvCorpus] :
               Start(<<Glass1>> \o r1 \o <<Glass2>> \o r2)

Spec == Init /\ [][Next]_vars

----------------------------------------------------------------------------
(* Inputs for the normalisation: one glass of mol% oxide records *)

NormOxides ==
    <<[oxide |-> <<"S", "i", "O", "2">>, element |-> <<"S", "i">>],
      [oxide |-> <<"N", "a", "2", "O">>, element |-> <<"N", "a">>],
      [oxide |-> <<"C", "a", "O">>, element |-> <<"C", "a">>],
      [oxide |-> <<"A", "l", "2", "O", "3">>, element |-> <<"A", "l">>],
      [oxide |-> <<"B", "2", "O", "3">>, element |-> <<"B">>],
      [oxide |-> <<"K", "2", "O">>, element |-> <<"K">>],
      [oxide |-> <<"M", "g", "O">>, element |-> <<"M", "g">>]>>

NormValues == {<<"1", "0">>, <<"2", "0">>, <<"3", "0">>}

\* f"{k}. [{oxide}][{element}] : [{value}][mol%][oxide]"
NormLine(k, value) ==
    <<DigitSeq[k + 1], ".", " ", "[">> \o NormOxides[k].oxide \o <<"]", "[">>
    \o NormOxides[k].element \o <<"]", " ", ":", " ", "[">> \o value
    \o <<"]", "[", "m", "o", "l", "%", "]", "[", "o", "x", "i", "d", "e", "]">>

MaxNormRecords == 6

NormLimit ==
    IF MaxNormRecords < Len(NormOxides) THEN MaxNormRecords ELSE Len(NormOxides)

InitNorm ==
    \E n \in 1..NormLimit : \E vs \in [1..n -> NormValues] :
        Start(<<Glass1>> \o [k \in 1..n |-> NormLine(k, vs[k])])

SpecNorm == InitNorm /\ [][Next]_vars

----------------------------------------------------------------------------
(* The coefficient functions on their own *)

CoefOxides ==
    {<<"A", "l", "2", "O", "3">>,
     <<"S", "i", "O", "2">>,
     <<"N", "a", "O">>,
     <<"N", "a", "2", "O">>,
     <<"B", "2", "O", "3">>,
     <<"O", "2">>,
     <<"S", "i", "0", "O", "0">>,
     <<"P", "2", "O", "5">>,
     <<"O", "s", "O", "4">>,
     <<"A", "l", "1", "2", "O", "1", "8">>,
     <<"C", "O">>,
     <<"C", "o", "3", "O", "4">>}

CoefElements ==
    {<<"A", "l">>,
     <<"S", "i">>,
     <<"N", "a">>,
     <<"B">>,
     <<"O">>,
     <<"S">>,
     <<"P">>,
     <<"O", "s">>,
     <<"C">>,
     <<"C", "o">>}

InitCoef ==
    /\ coef_args \in [oxide : CoefOxides, element : CoefElements]
    /\ coef_result = NoCoef
    /\ pc = "coef"
    /\ text = <<>>
    /\ i = 1
    /\ current_glass = NoGlass
    /\ data_by_glass = <<>>
    /\ g = 1
    /\ err = NoError
    /\ output = <<>>
    /\ parsed = <<>>
    /\ mole_values = <<>>

\* stoich_cation and stoich_oxygen (lines 206-207) for the arguments drawn
Coefficients ==
    /\ pc = "coef"
    /\ coef_result' =
           [cation |-> get_stoichiometric_coefficient(coef_args.oxide,
                                                      coef_args.element),
            oxygen |-> get_oxygen_coefficient(coef_args.oxide)]
    /\ pc' = "done"
    /\ UNCHANGED <<text, i, current_glass, data_by_glass, g, err, output,
                   parsed, mole_values, coef_args>>

NextCoef == Coefficients

SpecCoef == InitCoef /\ [][NextCoef]_vars

----------------------------------------------------------------------------
(* Properties of the conversion (specification Spec) *)

\* the parse loop has ended and convert_compositions has visited glass j,
\* whether it returned from it or raised in it
Visited(j) == j <= Len(mole_values)

\* convert_compositions has left glass j behind without raising
Converted(j) == Visited(j) /\ j < g

\* every value the records carry is a mol%_element value, and there is one
OnlyMolElement(compositions) ==
    /\ \E k \in 1..Len(compositions) : compositions[k].vals # <<>>
    /\ \A k \in 1..Len(compositions) :
           \A v \in 1..Len(compositions[k].vals) :
               compositions[k].vals[v].key = MolElement

\* the lines of out that belong to the glass whose lower-cased label is name
Section(out, name) ==
    LET heads == {l \in 1..Len(out) : out[l].kind = "header"}
        mine  == {l \in heads : out[l].name = name}
        From(h) == SubSeq(out, h,
                       IF \E l \in heads : l > h
                       THEN (CHOOSE l \in heads :
                                l > h /\ \A m \in heads : m > h => l <= m) - 1
                       ELSE Len(out))
    IN  IF mine = {} THEN <<>>
        ELSE From(CHOOSE h \in mine : \A m \in mine : h <= m)

\* one "mol% <element> = <value>" line per record with mol%_element > 0
RECURSIVE PreservedLines(_)
PreservedLines(compositions) ==
    IF compositions = <<>> THEN <<>>
    ELSE (IF \E v \in 1..Len(Head(compositions).vals) :
                /\ Head(compositions).vals[v].key = MolElement
                /\ Head(compositions).vals[v].value.n > 0
          THEN <<[kind |-> "mol", name |-> Head(compositions).element,
                  value |-> DictGet(Head(compositions).vals, MolElement, Zero)]>>
          ELSE <<>>) \o PreservedLines(Tail(compositions))

\* C2 as stated: a glass whose records carry only mol%_element values is left
\* unconverted and the returned text holds no line for it, neither its header
\* nor a mol% line.
C2_MolElementGlassHasNoOutput ==
    pc = "done" =>
        \A j \in 1..Len(parsed) :
            OnlyMolElement(parsed[j].value) =>
                /\ data_by_glass[j].value = parsed[j].value
                /\ Section(output, lower(parsed[j].key)) = <<>>

\* C2 amended: such a glass is left unconverted, and a returned text holds
\* its lower-cased header followed by one mol% line for each of its records
\* whose mol%_element value is positive, in line order, with the value kept.
C2_MolElementGlassIsPreserved ==
    \A j \in 1..Len(parsed) :
        OnlyMolElement(parsed[j].value) =>
            /\ data_by_glass[j].value = parsed[j].value
            /\ pc = "done" =>
                   Section(output, lower(parsed[j].key)) =
                       <<[kind |-> "header", name |-> lower(parsed[j].key),
                          value |-> Zero]>>
                       \o PreservedLines(parsed[j].value)

\* a returned text for two glasses, one of mol%_element records only with a
\* positive value, the other converted
C2_Witness ==
    /\ pc = "done"
    /\ \E j \in 1..Len(parsed) :
           /\ OnlyMolElement(parsed[j].value)
           /\ PreservedLines(parsed[j].value) # <<>>
    /\ \E j \in 1..Len(parsed) : has_convertible_data(parsed[j].value)

\* C4 as stated: convert_compositions raises no error on anything the parser
\* produced.
C4_ConvertNeverRaises == i > Len(text) => pc # "error"

\* the claimed choice of mole_value: the first of mol%_oxide, wt%_oxide,
\* wt%_element that yields a value, a source that yields none being skipped
FirstYieldingSource(data) ==
    LET mo == DictGet(data.vals, MolOxide, Zero)
        wo == DictGet(data.vals, WtOxide, Zero)
        we == DictGet(data.vals, WtElement, Zero)
    IN  IF mo.n > 0 THEN RatDiv(mo, Rat(100, 1))
        ELSE IF wo.n > 0 /\ in_molar_masses(data.oxide)
        THEN RatDiv(wo, molar_mass(data.oxide))
        ELSE IF we.n > 0 /\ in_molar_masses(data.element)
        THEN RatDiv(we, molar_mass(data.element))
        ELSE None

\* C5 as stated: each record's mole_value is that of the first source, in the
\* order mol%_oxide, wt%_oxide, wt%_element, that yields a value.
C5_FirstYieldingSourceIsUsed ==
    \A j \in 1..Len(mole_values) :
        \A k \in 1..Len(mole_values[j]) :
            mole_values[j][k] = FirstYieldingSource(parsed[j].value[k])

\* the record carries a wt%_oxide value only, for an oxide the table lacks
UnknownOxideOnly(data) ==
    /\ DictKeys(data.vals) = <<WtOxide>>
    /\ ~in_molar_masses(data.oxide)

RECURSIVE WithoutUnknownOxide(_)
WithoutUnknownOxide(compositions) ==
    IF compositions = <<>> THEN <<>>
    ELSE (IF UnknownOxideOnly(Head(compositions)) THEN <<>>
          ELSE <<Head(compositions)>>)
         \o WithoutUnknownOxide(Tail(compositions))

\* C7: a glass none of whose records yields a mole_value keeps the record list
\* the parser built; and the records that carry only a wt%_oxide value for an
\* oxide missing from the table add nothing, to their element or to O: a
\* converted glass holds what its other records alone convert to.
C7_UnconvertibleGlassUntouched ==
    \A j \in 1..Len(parsed) :
        /\ ~has_convertible_data(parsed[j].value) =>
               data_by_glass[j].value = parsed[j].value
        /\ ( /\ Converted(j) /\ has_convertible_data(parsed[j].value)
             /\ \E k \in 1..Len(parsed[j].value) :
                    UnknownOxideOnly(parsed[j].value[k]) ) =>
               \E ups \in SUBSET Ties(WithoutUnknownOxide(parsed[j].value)) :
                   data_by_glass[j].value =
                       convert_glass(WithoutUnknownOxide(parsed[j].value),
                                     ups).compositions

\* the run returned; one glass of an unknown oxide only stayed as parsed,
\* another with such a record among convertible ones was converted
C7_Witness ==
    /\ pc = "done"
    /\ \E j \in 1..Len(parsed) :
           /\ ~has_convertible_data(parsed[j].value)
           /\ \E k \in 1..Len(parsed[j].value) :
                  UnknownOxideOnly(parsed[j].value[k])
    /\ \E j \in 1..Len(parsed) :
           /\ has_convertible_data(parsed[j].value)
           /\ \E k \in 1..Len(parsed[j].value) :
                  UnknownOxideOnly(parsed[j].value[k])

\* s without its repeated members, each kept where it first stands
RECURSIVE Distinct(_)
Distinct(s) ==
    IF s = <<>> THEN <<>>
    ELSE LET init == Distinct(SubSeq(s, 1, Len(s) - 1))
         IN  IF \E k \in 1..Len(init) : init[k] = s[Len(s)] THEN init
             ELSE Append(init, s[Len(s)])

\* the elements of the records that yield a mole_value, in line order
RECURSIVE Contributing(_)
Contributing(compositions) ==
    IF compositions = <<>> THEN <<>>
    ELSE (IF mole_value(Head(compositions)) # None
          THEN <<Head(compositions).element>> ELSE <<>>)
         \o Contributing(Tail(compositions))

\* the claimed species: the distinct elements by first contribution, with O
\* directly after the first of them (and nowhere else)
ClaimedSpecies(compositions) ==
    LET first == Head(Contributing(compositions))
    IN  Distinct(<<first, Oxygen>> \o Contributing(compositions))

\* list holds one {'element', 'mol%_element'} entry per claimed species
IsAggregateOf(list, compositions) ==
    /\ [k \in 1..Len(list) |-> list[k].element] = ClaimedSpecies(compositions)
    /\ \A k \in 1..Len(list) :
           /\ DOMAIN list[k] = {"element", "vals"}
           /\ DictKeys(list[k].vals) = <<MolElement>>

\* C10 as stated: once convert_compositions has dealt with a glass that has a
\* convertible record, the glass's list is one entry per distinct contributing
\* element plus O, in order of first contribution, and no record remains.
C10_ConvertibleGlassIsReplaced ==
    \A j \in 1..Len(mole_values) :
        has_convertible_data(parsed[j].value) =>
            IsAggregateOf(data_by_glass[j].value, parsed[j].value)

\* the same for the glasses convert_compositions returned from
ConvertedGlassIsReplaced ==
    \A j \in 1..Len(mole_values) :
        Converted(j) /\ has_convertible_data(parsed[j].value) =>
            IsAggregateOf(data_by_glass[j].value, parsed[j].value)

----------------------------------------------------------------------------
(* Properties of the parser (specification SpecParse) *)

\* line k, stripped
Stripped(k) == strip(text[k])

IsHeaderLine(k) == startswith(Stripped(k), Glass)

\* the label the header line k opens
LabelAt(k) == strip(split(Stripped(k), ":")[1])

\* line k is a data line that yields a record
IsRecordLine(k) ==
    /\ ~IsHeaderLine(k)
    /\ re_match_index(Stripped(k))
    /\ parse_line(Stripped(k)).tag = "data"

\* the records of the lines lo..hi, in line order
RECURSIVE RecordsIn(_, _)
RecordsIn(lo, hi) ==
    IF lo > hi THEN <<>>
    ELSE LET r == parse_line(Stripped(lo))
         IN  (IF ~IsHeaderLine(lo) /\ re_match_index(Stripped(lo))
                 /\ r.tag = "data"
              THEN <<Record(r)>> ELSE <<>>) \o RecordsIn(lo + 1, hi)

\* the groups as the parse loop has them after the i - 1 lines it has read
Groups == IF i <= Len(text) THEN data_by_glass ELSE parsed

\* C9: after the lines read so far, the labels that have a group are those of
\* the headers read, and the group of a label holds exactly the records of
\* the data lines between the last header with that label and the header
\* that follows it (or the last line read), in line order.
C9_GroupsFollowHeaders ==
    LET heads == {h \in 1..(i - 1) : IsHeaderLine(h)}
        Until(h) == IF \E m \in heads : m > h
                    THEN (CHOOSE m \in heads :
                             m > h /\ \A l \in heads : l > h => m <= l) - 1
                    ELSE i - 1
    IN  /\ {Groups[j].key : j \in 1..Len(Groups)} = {LabelAt(h) : h \in heads}
        /\ \A h \in heads :
               (\A m \in heads : m > h => LabelAt(m) # LabelAt(h)) =>
                   DictGet(Groups, LabelAt(h), <<>>) = RecordsIn(h + 1, Until(h))

\* all lines are read: a record line before the first header, then a glass
\* whose header is repeated after one of its record lines, then a record line
C9_Witness ==
    /\ i > Len(text)
    /\ IsRecordLine(1)
    /\ \E h \in 2..Len(text) :
           /\ IsHeaderLine(h)
           /\ \A m \in 1..(h - 1) : ~IsHeaderLine(m)
    /\ \E h \in 1..Len(text) : \E k \in (h + 1)..Len(text) :
           \E m \in (k + 1)..Len(text) :
               /\ IsHeaderLine(h) /\ IsRecordLine(k) /\ IsHeaderLine(m)
               /\ LabelAt(h) = LabelAt(m)
               /\ DictGet(parsed, LabelAt(h), <<>>) = <<>>

\* the loop handed line k to parse_line and its prefix matched
IsDataLine(k) ==
    /\ ~IsHeaderLine(k)
    /\ \E h \in 1..(k - 1) : IsHeaderLine(h)
    /\ re_match_line(Stripped(k)).ok

\* the semicolon-separated parts that follow the prefix of a data line
PartsAfterPrefix(line) ==
    split(SubSeq(line, Find(line, ":") + 1, Len(line)), ";")

\* part is empty or holds [<number>][<unit%>][<type>]
WellFormedPart(part) == strip(part) = <<>> \/ re_search_part(strip(part)).ok

\* C3 as stated: no data line with a non-empty part that lacks the shape
\* [<number>][<unit%>][<type>] is ever passed over: the loop raises on it.
C3_MalformedPartAborts ==
    \A k \in 1..(i - 1) :
        IsDataLine(k) =>
            \A p \in 1..Len(PartsAfterPrefix(Stripped(k))) :
                WellFormedPart(PartsAfterPrefix(Stripped(k))[p])

\* C6 as stated: the parse loop raises nothing but the malformed-part error.
C6_OnlyMalformedPartError ==
    pc = "error" /\ i <= Len(text) => err.kind = "InvalidPartFormat"

----------------------------------------------------------------------------
(* Normalisation (specification SpecNorm) *)

RECURSIVE SumOfLines(_)
SumOfLines(ls) ==
    IF ls = <<>> THEN Zero
    ELSE RatAdd(IF Head(ls).kind = "mol" THEN Head(ls).value ELSE Zero,
                SumOfLines(Tail(ls)))

\* the sum of the mole-percent values emitted for glass j
EmittedSum(j) == SumOfLines(Section(output, lower(parsed[j].key)))

\* |x - 100| <= bound
Near100(x, bound) ==
    RatLess(Rat(Abs(x.n - 100 * x.d), x.d), bound) \/
    Rat(Abs(x.n - 100 * x.d), x.d) = bound

\* C1 as stated: the values emitted for a glass with a convertible record sum
\* to 100 within 0.02.
C1_SumWithinTwoHundredths ==
    pc = "done" =>
        \A j \in 1..Len(parsed) :
            has_convertible_data(parsed[j].value) =>
                Near100(EmittedSum(j), Rat(2, 100))

\* C1 amended: they sum to 100 within 0.005 for each species of the glass
\* (its elements and O), each value being off by at most half a hundredth.
C1_SumWithinHalfHundredthPerSpecies ==
    pc = "done" =>
        \A j \in 1..Len(parsed) :
            has_convertible_data(parsed[j].value) =>
                Near100(EmittedSum(j), Rat(Len(data_by_glass[j].value), 200))

\* a returned text for a glass of six oxides whose seven values sum to 100.03
C1_Witness ==
    /\ pc = "done"
    /\ \E j \in 1..Len(parsed) :
           /\ has_convertible_data(parsed[j].value)
           /\ Len(data_by_glass[j].value) = 7
           /\ EmittedSum(j) = Rat(10003, 100)

----------------------------------------------------------------------------
(* Coefficients (specification SpecCoef) *)

\* the number the digits ds write
RECURSIVE Decimal(_)
Decimal(ds) ==
    IF ds = <<>> THEN 0
    ELSE DigitVal(Head(ds)) * Pow10(Len(ds) - 1) + Decimal(Tail(ds))

\* ds is the whole group of digits that stands at s[k]
DigitsAt(s, k, ds) ==
    /\ ds # <<>>
    /\ Lit(s, k, ds)
    /\ \A d \in 1..Len(ds) : ds[d] \in Digits
    /\ (k + Len(ds) > Len(s) \/ s[k + Len(ds)] \notin Digits)

\* the groups of digits in s
DigitGroups(s) ==
    {SubSeq(s, a, b) : a \in 1..Len(s), b \in 1..Len(s)}

\* C8: the cation coefficient is the number written directly after the
\* element symbol at the start of the formula, 1 if there is none or the
\* formula does not start with the element; the oxygen coefficient is the
\* number written after the first 'O' that digits follow, 1 if there is none.
C8_CoefficientsReadSubscripts ==
    coef_result # NoCoef =>
        LET oxide   == coef_args.oxide
            element == coef_args.element
            after   == Len(element) + 1
            os      == {k \in 1..Len(oxide) :
                           /\ oxide[k] = "O"
                           /\ k < Len(oxide)
                           /\ oxide[k + 1] \in Digits}
        IN  /\ \A ds \in DigitGroups(oxide) :
                   startswith(oxide, element) /\ DigitsAt(oxide, after, ds) =>
                       coef_result.cation = Decimal(ds)
            /\ (~startswith(oxide, element)
                  \/ after > Len(oxide)
                  \/ oxide[after] \notin Digits) =>
                       coef_result.cation = 1
            /\ \A k \in os : \A ds \in DigitGroups(oxide) :
                   (\A m \in os : k <= m) /\ DigitsAt(oxide, k + 1, ds) =>
                       coef_result.oxygen = Decimal(ds)
            /\ os = {} => coef_result.oxygen = 1
            /\ oxide = <<"A", "l", "2", "O", "3">> /\ element = <<"A", "l">> =>
                   coef_result = [cation |-> 2, oxygen |-> 3]
            /\ oxide = <<"S", "i", "O", "2">> /\ element = <<"S", "i">> =>
                   coef_result = [cation |-> 1, oxygen |-> 2]
            /\ oxide = <<"N", "a", "O">> => coef_result.oxygen = 1

\* the coefficients of Al in Al12O18 have been computed
C8_Witness ==
    /\ coef_args = [oxide |-> <<"A", "l", "1", "2", "O", "1", "8">>,
                    element |-> <<"A", "l">>]
    /\ coef_result = [cation |-> 12, oxygen |-> 18]

=============================================================================
